---- MODULE Spec2Model ----
(***************************************************************************)
(* copy_and_template (src/main.py): a TOML manifest names copy rules       *)
(* ([file*] tables with `from`/`to` path templates) and a [zip] table.     *)
(* process_files renders the templates, copies every rule's source into a  *)
(* staging directory next to the manifest and packs that directory into a  *)
(* zip archive; main wraps the call and turns its outcome into the exit    *)
(* status of the command.                                                  *)
(*                                                                         *)
(* Text is modelled as a sequence of chunks (short strings); the chunk "/" *)
(* is the path separator and a chunk that starts with "." is a file-name   *)
(* suffix.  A file-system path is the sequence of its components, each a   *)
(* sequence of chunks; all paths handed to the file system are absolute.   *)
(***************************************************************************)
EXTENDS Integers, Sequences, FiniteSets, TLC

(***************************************************************************)
(* Bound of the model: the longest list of sections after [variables] and  *)
(* [zip] in a manifest.                                                    *)
(***************************************************************************)
MaxSections == 2

----------------------------------------------------------------------------
(* Text, templates and render_path                                         *)

Sep == "/"

Suffixes == {".zip", ".txt"}

\* a piece of literal template text
Lit(c) == [kind |-> "lit", text |-> c]

\* a {{name}} placeholder
Var(n) == [kind |-> "var", text |-> n]

\* the template without placeholders that spells the chunks of s
Text(s) == [k \in 1..Len(s) |-> Lit(s[k])]

\* str(value), as Jinja2 applies it to the value of a placeholder
Str(v) == IF v.type = "int" THEN <<ToString(v.val)>> ELSE v.val

\* dict.get(key) is truthy: the key is there and its value is not empty
Present(d, k) == k \in DOMAIN d /\ d[k] # <<>>

\* Template(path_template).render(variables): Jinja2's default Undefined
\* renders a placeholder whose name is no key of `variables` as empty text
RECURSIVE render_path(_, _)
render_path(path_template, variables) ==
    IF path_template = <<>> THEN <<>>
    ELSE LET h == Head(path_template)
             piece == IF h.kind = "lit" THEN <<h.text>>
                      ELSE IF h.text \in DOMAIN variables
                           THEN Str(variables[h.text])
                           ELSE <<>>
         IN  piece \o render_path(Tail(path_template), variables)

\* the placeholder names a template refers to
Placeholders(path_template) ==
    {path_template[k].text : k \in {j \in 1..Len(path_template) :
                                      path_template[j].kind = "var"}}

----------------------------------------------------------------------------
(* pathlib                                                                 *)

\* the components of a path string: split at "/", empty and "." components
\* dropped
RECURSIVE Split(_, _, _)
Split(s, cur, acc) ==
    LET flush == IF cur = <<>> \/ cur = <<".">> THEN acc ELSE Append(acc, cur)
    IN  IF s = <<>> THEN flush
        ELSE IF Head(s) = Sep THEN Split(Tail(s), <<>>, flush)
        ELSE Split(Tail(s), Append(cur, Head(s)), acc)

\* Path(s)
Path(s) == [abs |-> s # <<>> /\ Head(s) = Sep, parts |-> Split(s, <<>>, <<>>)]

is_absolute(p) == p.abs

\* p / q: an absolute right operand replaces the left one
Join(p, q) == IF q.abs THEN q ELSE [abs |-> p.abs, parts |-> p.parts \o q.parts]

\* Path.stem: the last component without its last suffix
Stem(p) ==
    IF p.parts = <<>> THEN <<>>
    ELSE LET name == p.parts[Len(p.parts)]
         IN  IF Len(name) > 1 /\ name[Len(name)] \in Suffixes
             THEN SubSeq(name, 1, Len(name) - 1)
             ELSE name

\* Path.parent of a list of components
Parent(parts) == IF parts = <<>> THEN <<>> ELSE SubSeq(parts, 1, Len(parts) - 1)

\* dir is a proper ancestor of f
Under(f, dir) == Len(f) > Len(dir) /\ SubSeq(f, 1, Len(dir)) = dir

\* f.relative_to(dir), for f under dir
relative_to(f, dir) == SubSeq(f, Len(dir) + 1, Len(f))

\* the directories mkdir(parents=True) visits for d: d and its ancestors
Prefixes(d) == {SubSeq(d, 1, k) : k \in 0..Len(d)}

----------------------------------------------------------------------------
(* Manifests: the dict load_toml returns, as its items in declaration      *)
(* order.  Every item is a table (a dict) or a scalar.                     *)

Table(key, d) == [key |-> key, isdict |-> TRUE, d |-> d]

Scalar(key) == [key |-> key, isdict |-> FALSE, d |-> <<>>]

EmptyDict == [k \in {} |-> k]

\* the [variables] table of the manifests
VariablesTable ==
    [name |-> [type |-> "str", val |-> <<"u">>],
     id   |-> [type |-> "int", val |-> 1]]

\* the [zip] tables of the manifests
ZipTables == 1..6

ZipTable(n) ==
    CASE n = 1 -> EmptyDict
      [] n = 2 -> [file_name |-> Text(<<"out", ".zip">>)]
      [] n = 3 -> [file_name |-> Text(<<"out", "/", "out", ".zip">>)]
      [] n = 4 -> [password |-> <<"pw">>]
      [] n = 5 -> [file_name |-> Text(<<"out", ".zip">>), output_enabled |-> FALSE]
      [] n = 6 -> [password |-> <<"pw">>, output_enabled |-> FALSE]

\* the sections a manifest may declare after [variables] and [zip]; the
\* section at position k is named file<k> or other<k>
Sections == 1..10

Section(n, k) ==
    LET file == <<"file", ToString(k)>>
    IN  CASE n = 1 -> Table(file, [from |-> Text(<<"u", "/", "a", ".txt">>),
                                   to   |-> Text(<<"a", ".txt">>)])
          [] n = 2 -> Table(file, [from |-> <<Var("name"), Lit("/"), Lit("b"), Lit(".txt")>>,
                                   to   |-> <<Lit("sub"), Lit("/"), Lit("b"), Var("id"), Lit(".txt")>>])
          [] n = 3 -> Table(file, [from |-> Text(<<"u", "/", "m", ".txt">>),
                                   to   |-> Text(<<"m", ".txt">>)])
          [] n = 4 -> Table(file, [from |-> Text(<<"u", "/", "a", ".txt">>)])
          [] n = 5 -> Table(file, [to |-> Text(<<"a", ".txt">>), from |-> <<>>])
          [] n = 6 -> Table(file, [from |-> Text(<<"/", "s", "/", "c", ".txt">>),
                                   to   |-> Text(<<"/", "b", "/", "esc", ".txt">>)])
          [] n = 7 -> Table(file, [from |-> <<Var("nokey"), Lit("/"), Lit("s"), Lit("/"), Lit("c"), Lit(".txt")>>,
                                   to   |-> <<Lit("a"), Var("nokey"), Lit(".txt")>>])
          [] n = 8 -> Table(file, [from |-> Text(<<"u", "/", "b", ".txt">>),
                                   to   |-> Text(<<"sub">>)])
          [] n = 9 -> Table(<<"other", ToString(k)>>,
                            [from |-> Text(<<"u", "/", "a", ".txt">>),
                             to   |-> Text(<<"o", ".txt">>)])
          [] n = 10 -> Scalar(file)

\* the manifest with [zip] table z (0: none) and the sections pick
Manifest(z, pick) ==
    <<Table(<<"variables">>, VariablesTable)>>
    \o (IF z = 0 THEN <<>> ELSE <<Table(<<"zip">>, ZipTable(z))>>)
    \o [k \in 1..Len(pick) |-> Section(pick[k], k)]

\* dict.get(key, {}) on the manifest
Get(cfg, key) ==
    IF \E j \in 1..Len(cfg) : cfg[j].key = key
    THEN cfg[CHOOSE j \in 1..Len(cfg) : cfg[j].key = key].d
    ELSE EmptyDict

\* key.startswith(prefix), for a prefix that is one chunk
startswith(key, prefix) == key # <<>> /\ Head(key) = prefix

----------------------------------------------------------------------------
(* The file system the run starts in.  A file is its bytes and its         *)
(* modification time; directories are kept apart.                          *)

File(data, mtime) == [data |-> data, mtime |-> mtime]

P(s) == Path(s).parts

base_dir == Path(<<"/", "b">>)

\* the sources beside the manifest, and one elsewhere
SourceFiles ==
    (P(<<"/", "b", "/", "u", "/", "a", ".txt">>) :> File("A", "t1"))
    @@ (P(<<"/", "b", "/", "u", "/", "b", ".txt">>) :> File("B", "t2"))
    @@ (P(<<"/", "s", "/", "c", ".txt">>) :> File("C", "t3"))

SourceDirs == {<<>>, P(<<"/", "b">>), P(<<"/", "b", "/", "u">>), P(<<"/", "s">>)}

\* what an earlier run left in the staging directory
LeftoverFiles == P(<<"/", "b", "/", "out", "/", "old", ".txt">>) :> File("O", "t0")

LeftoverDirs == {P(<<"/", "b", "/", "out">>)}

\* the log file: absent, or the rows it holds
NoLogFile == [exists |-> FALSE, rows |-> <<>>]

LogRow(operation, source, destination) ==
    [operation |-> operation, source |-> source, destination |-> destination]

Header == LogRow("operation", <<<<"source">>>>, <<<<"destination">>>>)

LeftoverLog == [exists |-> TRUE,
                rows |-> <<Header, LogRow("copy", P(<<"/", "x">>), P(<<"/", "y">>))>>]

----------------------------------------------------------------------------
(* State                                                                   *)

VARIABLES
    config,       \* the manifest, as load_toml returned it
    verbose,      \* process_files' verbose flag
    log_path,     \* TRUE when a log path was passed
    cli,          \* TRUE when main made the call
    pc,           \* "begin", "copy", "zipwrite", "done", "exited"
    idx,          \* the position in file_sections the copy loop is at
    files,        \* the regular files: path -> File
    dirs,         \* the directories
    logfile,      \* the file at log_path
    pending,      \* the files the plain strategy has still to add
    archive,      \* the entries of the file at zip_path, in the order added
    outcome,      \* how process_files ended: "", "returned", "SystemExit", "Exception"
    exit_status,  \* the status main's process ends with (-1: still running)
    strategy,     \* the archive strategy entered: "none", "plain", "encrypted"
    copied,       \* history: the copies made, in order
    skipped,      \* history: positions skipped for a missing from/to
    missing,      \* history: positions whose source did not exist
    files0, dirs0, logfile0   \* history: the file system at the call

vars == <<config, verbose, log_path, cli, pc, idx, files, dirs, logfile, pending,
          archive, outcome, exit_status, strategy, copied, skipped, missing,
          files0, dirs0, logfile0>>

inputs == <<config, verbose, log_path, cli, files0, dirs0, logfile0>>

history == <<copied, skipped, missing>>

----------------------------------------------------------------------------
(* process_files: the values computed from the manifest                    *)

variables == Get(config, <<"variables">>)

zip_config == Get(config, <<"zip">>)

zip_file_name ==
    render_path(IF "file_name" \in DOMAIN zip_config
                THEN zip_config.file_name
                ELSE Text(<<"output", ".zip">>),
                variables)

zip_password == Present(zip_config, "password")

zip_output_enabled ==
    IF "output_enabled" \in DOMAIN zip_config THEN zip_config.output_enabled ELSE TRUE

temp_dir_name == Stem(Path(zip_file_name))

temp_dir == Join(base_dir, Path(temp_dir_name))

zip_path == Join(base_dir, Path(zip_file_name))

IsFileSection(item) == startswith(item.key, "file") /\ item.isdict

file_sections == SelectSeq(config, IsFileSection)

\* `not zip_config`
ZipSectionMissing == DOMAIN zip_config = {}

\* `not from_path or not to_path`
Incomplete(file_config) == ~Present(file_config, "from") \/ ~Present(file_config, "to")

from_path_rendered(file_config) == render_path(file_config.from, variables)

to_path_rendered(file_config) == render_path(file_config.to, variables)

SourceOf(file_config) ==
    LET p == Path(from_path_rendered(file_config))
    IN  (IF is_absolute(p) THEN p ELSE Join(base_dir, p)).parts

DestinationOf(file_config) == Join(temp_dir, Path(to_path_rendered(file_config))).parts

----------------------------------------------------------------------------
(* File-system and log operations                                          *)

exists(fs, ds, p) == p \in DOMAIN fs \/ p \in ds

is_file(fs, p) == p \in DOMAIN fs

\* d.mkdir(parents=True, exist_ok=True) raises when d or an ancestor is a file
MkdirFails(fs, d) == \E q \in Prefixes(d) : q \in DOMAIN fs

mkdir(ds, d) == ds \cup Prefixes(d)

\* shutil.copy2 writes into dst when dst is a directory
CopyTarget(ds, src, dst) == IF dst \in ds THEN Append(dst, src[Len(src)]) ELSE dst

\* shutil.copy2 raises for a directory source, for a directory target and
\* when source and target are the same file
CopyFails(ds, src, dst) ==
    \/ src \in ds
    \/ CopyTarget(ds, src, dst) \in ds
    \/ CopyTarget(ds, src, dst) = src

\* shutil.copy in place of copy2: the bytes, but the time of the copy
copy_without_metadata(fs, src, target) == (target :> File(fs[src].data, "now")) @@ fs

\* shutil.copy2: the bytes and the modification time of src
copy2(fs, src, target) == (target :> fs[src]) @@ fs

\* log_path.open('w') and the header row
LogOpen(lf) == IF log_path THEN [exists |-> TRUE, rows |-> <<Header>>] ELSE lf

\* log_path.open('w') in place of open('a'): the rows replace the log
LogRewrite(lf, rows) == IF log_path THEN [lf EXCEPT !.rows = rows] ELSE lf

\* log_path.open('a') and one row per element of rows
LogAppend(lf, rows) == IF log_path THEN [lf EXCEPT !.rows = @ \o rows] ELSE lf

\* opening the file at zip_path for writing raises when the path is a
\* directory or its parent is no directory
ZipOpenFails(ds, zp) == zp \in ds \/ Parent(zp) \notin ds

\* the file at zp, created or truncated
ZipCreate(fs, zp) == (zp :> File("zip", "now")) @@ fs

\* [f for f in temp_dir.rglob('*') if f.is_file()]
rglob_files(fs, dir) == {f \in DOMAIN fs : Under(f, dir)}

\* the orders in which a directory walk may yield the files of S
Orderings(S) ==
    {o \in [1..Cardinality(S) -> S] : \A a, b \in 1..Cardinality(S) : o[a] = o[b] => a = b}

\* the entry zipf.write(file, arcname) adds
PlainEntry(fs, f) ==
    [file |-> f, arcname |-> relative_to(f, temp_dir.parts),
     name |-> relative_to(f, temp_dir.parts), data |-> fs[f].data]

\* the entry pyminizip.compress_multiple adds for a file and its prefix:
\* the prefix is a directory inside the archive, the file keeps its name
EncryptedEntry(fs, f) ==
    [file |-> f, arcname |-> relative_to(f, temp_dir.parts),
     name |-> Append(relative_to(f, temp_dir.parts), f[Len(f)]), data |-> fs[f].data]

ZipRow(e) == LogRow("zip", e.file, e.arcname)

----------------------------------------------------------------------------
(* Initial states: a manifest, the flags of the call, and the file system  *)
(* an earlier run may have left files and a log in                         *)

Init ==
    /\ \E z \in {0} \cup ZipTables, len \in 0..MaxSections :
         \E pick \in [1..len -> Sections] : config = Manifest(z, pick)
    /\ verbose \in BOOLEAN
    /\ cli \in BOOLEAN
    /\ log_path \in BOOLEAN
    /\ cli => log_path
    /\ \E leftover \in BOOLEAN :
         /\ files0 = IF leftover THEN LeftoverFiles @@ SourceFiles ELSE SourceFiles
         /\ dirs0 = IF leftover THEN SourceDirs \cup LeftoverDirs ELSE SourceDirs
         /\ logfile0 = IF leftover THEN LeftoverLog ELSE NoLogFile
    /\ files = files0
    /\ dirs = dirs0
    /\ logfile = logfile0
    /\ pc = "begin"
    /\ idx = 1
    /\ pending = {}
    /\ archive = <<>>
    /\ outcome = ""
    /\ exit_status = -1
    /\ strategy = "none"
    /\ copied = <<>>
    /\ skipped = {}
    /\ missing = {}

----------------------------------------------------------------------------
(* process_files                                                           *)

\* process_files ends: it returns, or raises the named exception
End(how) ==
    /\ outcome' = how
    /\ pc' = "done"

\* the log file started before the [zip] table is looked at
BeginLogFirst ==
    /\ pc = "begin"
    /\ logfile' = LogOpen(logfile)
    /\ IF ZipSectionMissing
       THEN End("Exception")
       ELSE pc' = "copy" /\ UNCHANGED outcome
    /\ UNCHANGED <<inputs, history, idx, files, dirs, pending, archive,
                   exit_status, strategy>>

\* lines 36-55: the [zip] table is required; the log file is started
Begin ==
    /\ pc = "begin"
    /\ IF ZipSectionMissing
       THEN /\ End("Exception")
            /\ UNCHANGED logfile
       ELSE /\ logfile' = LogOpen(logfile)
            /\ pc' = "copy"
            /\ UNCHANGED outcome
    /\ UNCHANGED <<inputs, history, idx, files, dirs, pending, archive,
                   exit_status, strategy>>

\* sys.exit() in place of `continue` for a section without from or to
SkipSectionExits ==
    /\ End("SystemExit")
    /\ skipped' = skipped \cup {idx}
    /\ UNCHANGED <<idx, files, dirs, logfile, copied, missing>>

\* `continue` for a section without from or to
SkipSection ==
    /\ idx' = idx + 1
    /\ skipped' = skipped \cup {idx}
    /\ UNCHANGED <<pc, outcome, files, dirs, logfile, copied, missing>>

\* the source does not exist: sys.exit() when verbose, else `continue`
SourceNotFound ==
    /\ missing' = missing \cup {idx}
    /\ IF verbose
       THEN End("SystemExit") /\ UNCHANGED idx
       ELSE idx' = idx + 1 /\ UNCHANGED <<pc, outcome>>
    /\ UNCHANGED <<files, dirs, logfile, copied, skipped>>

\* lines 75-82: parent directories, the copy, the log row
CopyFile(source, destination) ==
    IF MkdirFails(files, Parent(destination))
    THEN /\ End("Exception")
         /\ UNCHANGED <<idx, files, dirs, logfile, history>>
    ELSE LET ds == mkdir(dirs, Parent(destination))
             target == CopyTarget(ds, source, destination)
         IN  /\ dirs' = ds
             /\ IF CopyFails(ds, source, destination)
                THEN /\ End("Exception")
                     /\ UNCHANGED <<idx, files, logfile, history>>
                ELSE /\ files' = copy2(files, source, target)
                     /\ logfile' = LogAppend(logfile, <<LogRow("copy", source, destination)>>)
                     /\ copied' = Append(copied, [section |-> idx, source |-> source,
                                                  destination |-> destination,
                                                  target |-> target, file |-> files[source]])
                     /\ idx' = idx + 1
                     /\ UNCHANGED <<pc, outcome, skipped, missing>>

\* lines 58-85: one round of the copy loop
CopySection ==
    /\ pc = "copy"
    /\ idx <= Len(file_sections)
    /\ LET file_config == file_sections[idx].d
       IN  IF Incomplete(file_config) THEN SkipSection
           ELSE IF ~exists(files, dirs, SourceOf(file_config)) THEN SourceNotFound
           ELSE CopyFile(SourceOf(file_config), DestinationOf(file_config))
    /\ UNCHANGED <<inputs, pending, archive, exit_status, strategy>>

CopyLoopDone == pc = "copy" /\ idx > Len(file_sections)

\* lines 136-139: output_enabled is false
ArchiveDisabled ==
    /\ CopyLoopDone
    /\ ~zip_output_enabled
    /\ End("returned")
    /\ UNCHANGED <<inputs, history, idx, files, dirs, logfile, pending, archive,
                   exit_status, strategy>>

\* lines 91-113: the encrypted strategy, one call of compress_multiple and
\* then the log rows
ArchiveEncrypted ==
    /\ CopyLoopDone
    /\ zip_output_enabled
    /\ zip_password
    /\ strategy' = "encrypted"
    /\ \E file_list \in Orderings(rglob_files(files, temp_dir.parts)) :
         IF file_list = <<>>
         THEN /\ End("returned")
              /\ UNCHANGED <<files, archive, logfile>>
         ELSE IF ZipOpenFails(dirs, zip_path.parts)
         THEN /\ End("Exception")
              /\ UNCHANGED <<files, archive, logfile>>
         ELSE LET entries == [k \in 1..Len(file_list) |-> EncryptedEntry(files, file_list[k])]
              IN  /\ files' = ZipCreate(files, zip_path.parts)
                  /\ archive' = entries
                  /\ logfile' = LogAppend(logfile, [k \in 1..Len(entries) |-> ZipRow(entries[k])])
                  /\ End("returned")
    /\ UNCHANGED <<inputs, history, idx, dirs, pending, exit_status>>

\* line 116: the plain strategy opens the archive, then the walk starts
ArchivePlainOpen ==
    /\ CopyLoopDone
    /\ zip_output_enabled
    /\ ~zip_password
    /\ strategy' = "plain"
    /\ IF ZipOpenFails(dirs, zip_path.parts)
       THEN /\ End("Exception")
            /\ UNCHANGED <<files, pending, archive>>
       ELSE /\ files' = ZipCreate(files, zip_path.parts)
            /\ archive' = <<>>
            /\ pending' = rglob_files(files', temp_dir.parts)
            /\ pc' = "zipwrite"
            /\ UNCHANGED outcome
    /\ UNCHANGED <<inputs, history, idx, dirs, logfile, exit_status>>

\* lines 117-129: one file of the walk is added and logged
ArchivePlainWrite ==
    /\ pc = "zipwrite"
    /\ \E file \in pending :
         /\ archive' = Append(archive, PlainEntry(files, file))
         /\ logfile' = LogAppend(logfile, <<ZipRow(PlainEntry(files, file))>>)
         /\ pending' = pending \ {file}
    /\ UNCHANGED <<inputs, history, pc, idx, files, dirs, outcome, exit_status, strategy>>

\* the walk is over: the archive is closed and process_files returns
ArchivePlainClose ==
    /\ pc = "zipwrite"
    /\ pending = {}
    /\ End("returned")
    /\ UNCHANGED <<inputs, history, idx, files, dirs, logfile, pending, archive,
                   exit_status, strategy>>

----------------------------------------------------------------------------
(* main                                                                    *)

\* the status of the process: sys.exit() without argument and a normal
\* return end it with 0, an exception caught by main with 1
ExitCode(how) == IF how = "Exception" THEN 1 ELSE 0

\* lines 159-168
MainExit ==
    /\ pc = "done"
    /\ cli
    /\ exit_status' = ExitCode(outcome)
    /\ pc' = "exited"
    /\ UNCHANGED <<inputs, history, idx, files, dirs, logfile, pending, archive,
                   outcome, strategy>>

Next ==
    \/ Begin
    \/ CopySection
    \/ ArchiveDisabled
    \/ ArchiveEncrypted
    \/ ArchivePlainOpen
    \/ ArchivePlainWrite
    \/ ArchivePlainClose
    \/ MainExit

Spec == Init /\ [][Next]_vars

----------------------------------------------------------------------------
(* Properties                                                              *)

N == Len(file_sections)

CopiedSections == {copied[j].section : j \in 1..Len(copied)}

\* the paths the copies wrote
Targets == {copied[j].target : j \in 1..Len(copied)}

\* copy j is the last one that wrote its path
LastWrite(j) == \A l \in (j + 1)..Len(copied) : copied[l].target # copied[j].target

StagedFiles(fs) == rglob_files(fs, temp_dir.parts)

\* a template of the section refers to a key `variables` does not have
HasUndefined(file_config) ==
    \E key \in {"from", "to"} \cap DOMAIN file_config :
        ~(Placeholders(file_config[key]) \subseteq DOMAIN variables)

\* the section has from and to, and its source exists when the call is made
ValidRule(file_config) ==
    /\ ~Incomplete(file_config)
    /\ exists(files0, dirs0, SourceOf(file_config))

Ended == pc \in {"done", "exited"}

IsCopyRow(r) == r.operation = "copy"

IsZipRow(r) == r.operation = "zip"

CopyRows == [j \in 1..Len(copied) |-> LogRow("copy", copied[j].source, copied[j].destination)]

ZipRows == [j \in 1..Len(archive) |-> LogRow("zip", archive[j].file, archive[j].arcname)]

\* C1: a copy rule whose source does not exist aborts the run at that rule,
\* whatever verbose and log_path are: no later rule is copied and neither
\* archive strategy is entered.
C1_MissingSourceAborts ==
    \A k \in missing :
        /\ \A j \in 1..Len(copied) : copied[j].section < k
        /\ strategy = "none"

\* C2: rendering a template that names a key absent from `variables` fails,
\* and the failure leaves process_files: the copy loop never gets past such
\* a rule and never copies it.
C2_UndefinedPlaceholderFails ==
    \A k \in 1..N :
        ~Incomplete(file_sections[k].d) /\ HasUndefined(file_sections[k].d)
        => /\ k \notin CopiedSections
           /\ idx <= k

C4_PlainArchiveEntries ==
    outcome = "returned" /\ strategy = "plain"
    => /\ {archive[j].file : j \in 1..Len(archive)}
            = StagedFiles(files) \ {zip_path.parts}
       /\ \A j \in 1..Len(archive) : archive[j].name = relative_to(archive[j].file, temp_dir.parts)
       /\ \A a, b \in 1..Len(archive) : archive[a].name = archive[b].name => a = b

\* C5: when a rule's source is missing, the command ends with a nonzero
\* exit status.
C5_MissingSourceNonzeroExit ==
    pc = "exited" /\ missing # {} => exit_status # 0

\* C6: without a [zip] table process_files raises before any file I/O: the
\* log file, the directories and the files are as before the call, nothing
\* is copied and no archive strategy is entered.
C6_NoZipNoIO ==
    (\A j \in 1..Len(config) : config[j].key # <<"zip">>) /\ pc # "begin"
    => /\ outcome = "Exception"
       /\ files = files0
       /\ dirs = dirs0
       /\ logfile = logfile0
       /\ copied = <<>>
       /\ strategy = "none"
       /\ archive = <<>>

\* C6 witness: a call without [zip] has ended; it was given a log path at
\* which an earlier log lies, and rules to copy.
C6_Witness ==
    /\ \A j \in 1..Len(config) : config[j].key # <<"zip">>
    /\ pc = "done"
    /\ log_path
    /\ logfile0.exists
    /\ \E k \in 1..N : ValidRule(file_sections[k].d)

\* no rule ends the run: in a verbose run every rule with from and to has
\* its source, and no copy raised
NoRuleEndsRun ==
    /\ verbose => \A j \in 1..N : Incomplete(file_sections[j].d) \/ ValidRule(file_sections[j].d)
    /\ ~(outcome = "Exception" /\ strategy = "none")

\* C7: a file* section without from or to is skipped and the run goes on
\* (in a run that has a [zip] table and so reaches the copy loop): it is
\* never copied, the log holds copy rows for the copies only, the run does
\* not end at it, and in an ended run that no other rule ended every valid
\* rule declared after it is copied and the archive phase was entered when
\* output is enabled.
C7_IncompleteSkipped ==
    \A k \in 1..N :
        Incomplete(file_sections[k].d) /\ pc # "begin" /\ ~ZipSectionMissing
        => /\ k \notin CopiedSections
           /\ (idx > k => k \in skipped)
           /\ ~(Ended /\ idx = k)
           /\ (log_path => Len(SelectSeq(logfile.rows, IsCopyRow)) = Len(copied))
           /\ (Ended /\ NoRuleEndsRun
               => /\ \A j \in (k + 1)..N :
                       ValidRule(file_sections[j].d) => j \in CopiedSections
                  /\ (zip_output_enabled => strategy # "none"))

\* C7 witness: a run returned after skipping its first section, copying the
\* second and writing the archive.
C7_Witness ==
    /\ outcome = "returned"
    /\ N = 2
    /\ Incomplete(file_sections[1].d)
    /\ CopiedSections = {2}
    /\ strategy = "plain"
    /\ Len(archive) > 0

\* C8: with output_enabled false no archive file and no zip log row is
\* written, with or without a password, and every file the rules copied is
\* in the staging directory when the call returns.
C8_DisabledKeepsStaging ==
    outcome = "returned" /\ ~zip_output_enabled
    => /\ strategy = "none"
       /\ archive = <<>>
       /\ SelectSeq(logfile.rows, IsZipRow) = SelectSeq(logfile0.rows, IsZipRow)
       /\ \A j \in 1..Len(copied) :
            /\ is_file(files, copied[j].target)
            /\ Under(copied[j].target, temp_dir.parts)

\* C9: every copy is written to the rendered `to` taken below the staging
\* directory, for a relative and for an absolute `to`, so that no rule
\* writes outside the staging directory.
C9_DestinationUnderStaging ==
    \A j \in 1..Len(copied) :
        /\ copied[j].destination
             = temp_dir.parts \o Path(to_path_rendered(file_sections[copied[j].section].d)).parts
        /\ Under(copied[j].target, temp_dir.parts)

\* the log of a started run: the header, the copy rows, the zip rows
LogStarted == log_path /\ pc # "begin" /\ ~ZipSectionMissing

====
